---- MODULE Spec2Model ----
(***************************************************************************)
(* Model of src/src/qt/intro.cpp: the data-directory chooser (Intro) and   *)
(* its asynchronous free-space checker (FreespaceChecker).                 *)
(*                                                                         *)
(* Two threads: the UI thread, which runs Intro's slots to completion one  *)
(* at a time, and the worker QThread, whose event loop runs                *)
(* FreespaceChecker::check().  Signals that cross the thread boundary are  *)
(* queued connections: requestCheck()/stopThread()->deleteLater() are      *)
(* posted to the worker's event queue (workerQ), reply() is posted to the  *)
(* UI thread's event queue (replyQ).  Both queues are FIFO.                *)
(***************************************************************************)
EXTENDS Integers, Sequences, FiniteSets, TLC

(* ------------------------------------------------------------------ *)
(* Bounds                                                               *)
(* ------------------------------------------------------------------ *)
\* Number of path edits (textChanged events) explored in one behaviour.
MaxEdits == 2

(* ------------------------------------------------------------------ *)
(* Byte counts                                                          *)
(* ------------------------------------------------------------------ *)
\* A uint64 byte count n is held as [gb, rem] with n = gb * GB_BYTES + rem
\* and 0 <= rem < GB_BYTES, so that 10^10 and its neighbours stay exact.
GB_BYTES == 1000000000

Bytes(g, r) == [gb |-> g, rem |-> r]

\* BLOCK_CHAIN_SIZE = 10LL * GB_BYTES
BLOCK_CHAIN_SIZE == Bytes(10, 0)

\* a < b on uint64
BytesLess(a, b) == (a.gb < b.gb) \/ (a.gb = b.gb /\ a.rem < b.rem)

\* a / GB_BYTES, integer division
BytesDivGB(a) == a.gb

ZeroBytes == Bytes(0, 0)

(* ------------------------------------------------------------------ *)
(* Paths (boost::filesystem::path)                                      *)
(* ------------------------------------------------------------------ *)
\* A path is the sequence of its elements, the root directory "/" being an
\* element of its own: "/a/b" is <<"/", "a", "b">>, "rel" is <<"rel">>, the
\* empty string is << >>.
EmptyPath == << >>
RelPath   == <<"rel">>
RootPath  == <<"/">>
APath     == <<"/", "a">>
ABPath    == <<"/", "a", "b">>

Paths == {EmptyPath, RelPath, RootPath, APath, ABPath}

\* path::parent_path(): the path without its last element.
parent_path(p) == IF Len(p) = 0 THEN << >> ELSE SubSeq(p, 1, Len(p) - 1)

\* path::has_parent_path(): !parent_path().empty()
has_parent_path(p) == Len(parent_path(p)) > 0

(* ------------------------------------------------------------------ *)
(* The filesystem the worker probes                                     *)
(* ------------------------------------------------------------------ *)
\* What status(p) finds: nothing, a regular file, a directory, or an error
\* other than "not found" (e.g. EACCES on an ancestor), on which the
\* throwing overloads of fs::exists / fs::is_directory raise
\* fs::filesystem_error.
Kinds == {"absent", "file", "dir", "err"}

Present(k) == k \in {"file", "dir"}

\* The filesystems one behaviour may run against.  kind is consistent with
\* the hierarchy: the empty path names nothing, the root is a directory, an
\* entry is present only inside a directory, and below an unreadable
\* directory every status() fails.  nospace is the set of present paths on
\* which the free-space query fails.
KindMaps ==
    { k \in [Paths -> Kinds] :
        /\ k[EmptyPath] = "absent"
        /\ k[RootPath] = "dir"
        /\ k[RelPath] \in {"absent", "file", "dir"}
        /\ (k[APath] \in {"absent", "file"} => k[ABPath] = "absent")
        /\ (k[APath] = "err" => k[ABPath] = "err") }

FileSystemsOf(k) ==
    { [kind |-> k, nospace |-> ns] :
        ns \in { s \in SUBSET {RootPath, APath, ABPath, RelPath} :
                   /\ Cardinality(s) <= 1
                   /\ \A p \in s : Present(k[p]) } }

FileSystems == UNION { FileSystemsOf(k) : k \in KindMaps }

\* Free space reported at each path when the query succeeds.  All four
\* differ, and they straddle BLOCK_CHAIN_SIZE.
FreeAt(p) ==
    CASE p = RootPath -> Bytes(10, 0)
      [] p = APath    -> Bytes(9, 999999999)
      [] p = ABPath   -> Bytes(0, 0)
      [] OTHER        -> Bytes(20, 5)

(* ------------------------------------------------------------------ *)
(* State                                                                *)
(* ------------------------------------------------------------------ *)
VARIABLES
    fs,             \* the filesystem (fixed during a behaviour)
    \* --- Intro (UI thread) ---
    uiPc,           \* position of the UI thread
    arg,            \* checkPath's parameter dataDir while it runs
    dataDirectory,  \* ui->dataDirectory->text()
    pathToCheck,    \* Intro::pathToCheck
    signalled,      \* Intro::signalled
    mutex,          \* Intro::mutex: "free", "ui" or "worker"
    okEnabled,      \* ui->buttonBox->button(Ok)->isEnabled()
    errorMessage,   \* ui->errorMessage text
    errorStyle,     \* ui->errorMessage style sheet
    freeSpace,      \* ui->freeSpace text
    freeSpaceStyle, \* ui->freeSpace style sheet
    replyQ,         \* reply() events posted to the UI thread
    \* --- worker thread ---
    workerQ,        \* events posted to the worker thread
    wPc,            \* position of the worker thread
    w,              \* check()'s locals
    executorAlive,  \* the FreespaceChecker has not been deleted
    quitNow,        \* QThread::quit() has been called
    \* --- history (not read by any guard) ---
    writes,         \* number of writes of pathToCheck so far
    nChecks,        \* number of check() executions that have read the slot
    lastEmitted,    \* last reply emitted by check()
    lastApplied,    \* last reply applied by setStatus
    written,        \* the values written to pathToCheck, in order
    \* --- Intro::pickDataDirectory ---
    pickPc,         \* position in pickDataDirectory ("off": not called)
    mapArgs,        \* the options -datadir and -choosedatadir
    strDataDir,     \* QSettings, key "strDataDir"
    pickDataDir,    \* pickDataDirectory's local dataDir
    pickHist        \* history: what pickDataDirectory started from and did

vars == << fs, uiPc, arg, dataDirectory, pathToCheck, signalled, mutex,
           okEnabled, errorMessage, errorStyle, freeSpace, freeSpaceStyle,
           replyQ, workerQ, wPc, w, executorAlive, quitNow,
           writes, nChecks, lastEmitted, lastApplied, written,
           pickPc, mapArgs, strDataDir, pickDataDir, pickHist >>

pickVars == << pickPc, mapArgs, strDataDir, pickDataDir, pickHist >>

uiWidgets == << okEnabled, errorMessage, errorStyle, freeSpace, freeSpaceStyle >>
history   == << writes, nChecks, lastEmitted, lastApplied, written >>

ST_OK    == "ST_OK"
ST_ERROR == "ST_ERROR"

MsgNewDir       == "A new data directory will be created."
MsgDirExists    == "Directory already exists. Add /name if you intend to create a new directory here."
MsgNotDir       == "Path already exists, and is not a directory."
MsgCannotCreate == "Cannot create data directory here."

WarnStyle == "QLabel { color: #800000 }"
NoStyle   == ""

NoReply == [status |-> "none", message |-> "", available |-> ZeroBytes,
            path |-> EmptyPath, ver |-> 0]

\* check()'s locals before it starts
NoLocals == [dataDir |-> EmptyPath, parentDir |-> EmptyPath,
             freeBytesAvailable |-> ZeroBytes, replyStatus |-> ST_OK,
             replyMessage |-> MsgNewDir, ver |-> 0]

\* State after Intro::Intro(): thread started, nothing signalled, the
\* widgets in Qt's defaults (button enabled, labels empty, empty line edit).
IntroInit ==
    /\ uiPc = "idle"
    /\ arg = EmptyPath
    /\ dataDirectory = EmptyPath
    /\ pathToCheck = EmptyPath
    /\ signalled = FALSE
    /\ mutex = "free"
    /\ okEnabled = TRUE
    /\ errorMessage = <<"", "">>
    /\ errorStyle = NoStyle
    /\ freeSpace = << >>
    /\ freeSpaceStyle = NoStyle
    /\ replyQ = << >>
    /\ workerQ = << >>
    /\ wPc = "idle"
    /\ w = NoLocals
    /\ executorAlive = TRUE
    /\ quitNow = FALSE
    /\ writes = 0
    /\ nChecks = 0
    /\ lastEmitted = NoReply
    /\ lastApplied = NoReply
    /\ written = << >>

\* -datadir: not given, or given with a value (possibly empty)
NoArg == [set |-> FALSE, value |-> EmptyPath]

\* QSettings without the key "strDataDir"
NoSetting == [has |-> FALSE, value |-> EmptyPath]

NoPickHist == [shown |-> FALSE, lastCreate |-> "none", exitCode |-> -1,
               mapArgs0 |-> [datadir |-> NoArg, choosedatadir |-> FALSE],
               strDataDir0 |-> NoSetting, kind0 |-> << >>]

\* The dialog on its own: an Intro has been constructed and
\* pickDataDirectory is left out of the picture.
Init ==
    /\ fs \in FileSystems
    /\ IntroInit
    /\ pickPc = "off"
    /\ mapArgs = [datadir |-> NoArg, choosedatadir |-> FALSE]
    /\ strDataDir = NoSetting
    /\ pickDataDir = EmptyPath
    /\ pickHist = NoPickHist

(* ------------------------------------------------------------------ *)
(* UI thread: Intro                                                     *)
(* ------------------------------------------------------------------ *)
\* void Intro::on_dataDirectory_textChanged(const QString &dataDirStr):
\* the line edit's text became p; disable OK and enter checkPath(p), whose
\* first statement is mutex.lock().
on_dataDirectory_textChanged(p) ==
    /\ uiPc = "idle"
    /\ writes < MaxEdits
    /\ p # dataDirectory
    /\ dataDirectory' = p
    /\ okEnabled' = FALSE
    /\ arg' = p
    /\ uiPc' = "checkPath_lock"
    /\ UNCHANGED << fs, pickVars, pathToCheck, signalled, mutex, errorMessage, errorStyle,
                    freeSpace, freeSpaceStyle, replyQ, workerQ, wPc, w,
                    executorAlive, quitNow, history >>

\* checkPath: mutex.lock()
checkPath_lock ==
    /\ uiPc = "checkPath_lock"
    /\ mutex = "free"
    /\ mutex' = "ui"
    /\ uiPc' = "checkPath_write"
    /\ UNCHANGED << fs, pickVars, arg, dataDirectory, pathToCheck, signalled, uiWidgets,
                    replyQ, workerQ, wPc, w, executorAlive, quitNow, history >>

\* checkPath with the test of signalled left out: every call emits.
checkPath_write_always_emits ==
    /\ uiPc = "checkPath_write"
    /\ pathToCheck' = arg
    /\ writes' = writes + 1
    /\ written' = Append(written, arg)
    /\ signalled' = TRUE
    /\ workerQ' = Append(workerQ, "check")
    /\ uiPc' = "checkPath_unlock"
    /\ UNCHANGED << fs, pickVars, arg, dataDirectory, mutex, uiWidgets, replyQ, wPc, w,
                    executorAlive, quitNow, nChecks, lastEmitted, lastApplied >>

\* checkPath that stores the path only when it also signals.
checkPath_write_only_when_unsignalled ==
    /\ uiPc = "checkPath_write"
    /\ writes' = writes + 1
    /\ written' = Append(written, arg)
    /\ IF ~signalled
         THEN /\ pathToCheck' = arg
              /\ signalled' = TRUE
              /\ workerQ' = Append(workerQ, "check")
         ELSE UNCHANGED << pathToCheck, signalled, workerQ >>
    /\ uiPc' = "checkPath_unlock"
    /\ UNCHANGED << fs, pickVars, arg, dataDirectory, mutex, uiWidgets, replyQ, wPc, w,
                    executorAlive, quitNow, nChecks, lastEmitted, lastApplied >>

\* checkPath: pathToCheck = dataDir; if(!signalled) { signalled = true;
\* emit requestCheck(); }   (requestCheck is queued to the worker thread)
checkPath_write ==
    /\ uiPc = "checkPath_write"
    /\ pathToCheck' = arg
    /\ writes' = writes + 1
    /\ written' = Append(written, arg)
    /\ IF ~signalled
         THEN /\ signalled' = TRUE
              /\ workerQ' = Append(workerQ, "check")
         ELSE UNCHANGED << signalled, workerQ >>
    /\ uiPc' = "checkPath_unlock"
    /\ UNCHANGED << fs, pickVars, arg, dataDirectory, mutex, uiWidgets, replyQ, wPc, w,
                    executorAlive, quitNow, nChecks, lastEmitted, lastApplied >>

\* checkPath: mutex.unlock(), and return to the event loop
checkPath_unlock ==
    /\ uiPc = "checkPath_unlock"
    /\ mutex' = "free"
    /\ arg' = EmptyPath
    /\ uiPc' = "idle"
    /\ UNCHANGED << fs, pickVars, dataDirectory, pathToCheck, signalled, uiWidgets,
                    replyQ, workerQ, wPc, w, executorAlive, quitNow, history >>

\* setStatus, last line, with the test inverted.
OkButtonAfter_inverted(status) == status = ST_ERROR

\* setStatus: setEnabled(status != FreespaceChecker::ST_ERROR)
OkButtonAfter(status) == status # ST_ERROR

\* setStatus with the threshold test off by one (<=).
FreeSpaceStyleAfter_le(bytesAvailable) ==
    IF BytesLess(bytesAvailable, BLOCK_CHAIN_SIZE) \/ bytesAvailable = BLOCK_CHAIN_SIZE
      THEN WarnStyle ELSE NoStyle

\* setStatus: the style sheet of ui->freeSpace for a reply that is not ERROR
FreeSpaceStyleAfter(bytesAvailable) ==
    IF BytesLess(bytesAvailable, BLOCK_CHAIN_SIZE) THEN WarnStyle ELSE NoStyle

\* setStatus: the text of ui->freeSpace for a reply that is not ERROR:
\* <<n, needed>> stands for "nGB of free space available[ (of 10GB needed)]."
FreeSpaceTextAfter(bytesAvailable) ==
    << BytesDivGB(bytesAvailable), BytesLess(bytesAvailable, BLOCK_CHAIN_SIZE) >>

\* void Intro::setStatus(int status, const QString &message, quint64
\* bytesAvailable), run by the UI event loop for the oldest pending reply().
setStatus ==
    /\ uiPc = "idle"
    /\ replyQ # << >>
    /\ LET r == Head(replyQ) IN
         /\ errorMessage' = IF r.status = ST_ERROR
                              THEN <<"Error: ", r.message>>
                              ELSE <<"", r.message>>
         /\ errorStyle' = IF r.status = ST_ERROR THEN WarnStyle ELSE NoStyle
         /\ IF r.status = ST_ERROR
              THEN /\ freeSpace' = << >>
                   /\ UNCHANGED freeSpaceStyle
              ELSE /\ freeSpace' = FreeSpaceTextAfter(r.available)
                   /\ freeSpaceStyle' = FreeSpaceStyleAfter(r.available)
         /\ okEnabled' = OkButtonAfter(r.status)
         /\ lastApplied' = r
    /\ replyQ' = Tail(replyQ)
    /\ UNCHANGED << fs, pickVars, uiPc, arg, dataDirectory, pathToCheck, signalled, mutex,
                    workerQ, wPc, w, executorAlive, quitNow,
                    writes, written, nChecks, lastEmitted >>

\* Intro::~Intro() up to thread->wait(): delete ui; emit stopThread(), which
\* posts deleteLater() to the executor and calls thread->quit() directly.
Intro_dtor_begin ==
    /\ uiPc = "idle"
    /\ workerQ' = Append(workerQ, "deleteLater")
    /\ quitNow' = TRUE
    /\ uiPc' = "dtor_wait"
    /\ UNCHANGED << fs, pickVars, arg, dataDirectory, pathToCheck, signalled, mutex,
                    uiWidgets, replyQ, wPc, w, executorAlive, history >>

\* ~Intro without thread->wait().
Intro_dtor_wait_skipped ==
    /\ uiPc = "dtor_wait"
    /\ uiPc' = "destroyed"
    /\ UNCHANGED << fs, pickVars, arg, dataDirectory, pathToCheck, signalled, mutex,
                    uiWidgets, replyQ, workerQ, wPc, w, executorAlive, quitNow,
                    history >>

\* Intro::~Intro(): thread->wait() returns once the thread has finished;
\* then the members and the QObject are destroyed.
Intro_dtor_wait ==
    /\ uiPc = "dtor_wait"
    /\ wPc = "finished"
    /\ uiPc' = "destroyed"
    /\ UNCHANGED << fs, pickVars, arg, dataDirectory, pathToCheck, signalled, mutex,
                    uiWidgets, replyQ, workerQ, wPc, w, executorAlive, quitNow,
                    history >>

(* ------------------------------------------------------------------ *)
(* boost::filesystem operations on fs (the throwing overloads)          *)
(* ------------------------------------------------------------------ *)
\* fs::exists(p): "throw" stands for fs::filesystem_error
fs_exists(f, p) ==
    CASE f.kind[p] = "err"    -> "throw"
      [] Present(f.kind[p])   -> "true"
      [] OTHER                -> "false"

\* fs::is_directory(p)
fs_is_directory(f, p) ==
    CASE f.kind[p] = "err" -> "throw"
      [] f.kind[p] = "dir" -> "true"
      [] OTHER             -> "false"

\* fs::space(p): fails on a path that cannot be resolved and on the paths of
\* f.nospace
fs_space(f, p) ==
    IF Present(f.kind[p]) /\ p \notin f.nospace
      THEN [ok |-> TRUE, available |-> FreeAt(p)]
      ELSE [ok |-> FALSE, available |-> ZeroBytes]

(* ------------------------------------------------------------------ *)
(* Worker thread: FreespaceChecker                                      *)
(* ------------------------------------------------------------------ *)
\* The worker's event loop takes requestCheck() off its queue and calls
\* check(), which starts with intro->getPathToCheck(): mutex.lock() next.
check_begin ==
    /\ wPc = "idle"
    /\ workerQ # << >>
    /\ Head(workerQ) = "check"
    /\ workerQ' = Tail(workerQ)
    /\ wPc' = IF executorAlive THEN "getPathToCheck_lock" ELSE "idle"
    /\ UNCHANGED << fs, pickVars, uiPc, arg, dataDirectory, pathToCheck, signalled, mutex,
                    uiWidgets, replyQ, w, executorAlive, quitNow, history >>

\* getPathToCheck that does not wait for the mutex.
getPathToCheck_lock_no_wait ==
    /\ wPc = "getPathToCheck_lock"
    /\ mutex' = "worker"
    /\ wPc' = "getPathToCheck_read"
    /\ UNCHANGED << fs, pickVars, uiPc, arg, dataDirectory, pathToCheck, signalled,
                    uiWidgets, replyQ, workerQ, w, executorAlive, quitNow,
                    history >>

\* getPathToCheck: mutex.lock()
getPathToCheck_lock ==
    /\ wPc = "getPathToCheck_lock"
    /\ mutex = "free"
    /\ mutex' = "worker"
    /\ wPc' = "getPathToCheck_read"
    /\ UNCHANGED << fs, pickVars, uiPc, arg, dataDirectory, pathToCheck, signalled,
                    uiWidgets, replyQ, workerQ, w, executorAlive, quitNow,
                    history >>

\* getPathToCheck that leaves signalled set.
getPathToCheck_read_keeps_signalled ==
    /\ wPc = "getPathToCheck_read"
    /\ w' = [w EXCEPT !.dataDir = pathToCheck, !.ver = writes]
    /\ nChecks' = nChecks + 1
    /\ wPc' = "getPathToCheck_unlock"
    /\ UNCHANGED << fs, pickVars, uiPc, arg, dataDirectory, pathToCheck, signalled, mutex,
                    uiWidgets, replyQ, workerQ, executorAlive, quitNow,
                    writes, written, lastEmitted, lastApplied >>

\* getPathToCheck: retval = pathToCheck; signalled = false;
getPathToCheck_read ==
    /\ wPc = "getPathToCheck_read"
    /\ w' = [w EXCEPT !.dataDir = pathToCheck, !.ver = writes]
    /\ signalled' = FALSE
    /\ nChecks' = nChecks + 1
    /\ wPc' = "getPathToCheck_unlock"
    /\ UNCHANGED << fs, pickVars, uiPc, arg, dataDirectory, pathToCheck, mutex,
                    uiWidgets, replyQ, workerQ, executorAlive, quitNow,
                    writes, written, lastEmitted, lastApplied >>

\* getPathToCheck: mutex.unlock(); return retval;  then check() sets up its
\* locals: freeBytesAvailable = 0, replyStatus = ST_OK, replyMessage = "A
\* new data directory will be created.", parentDir = dataDir.
getPathToCheck_unlock ==
    /\ wPc = "getPathToCheck_unlock"
    /\ mutex' = "free"
    /\ w' = [w EXCEPT !.parentDir = w.dataDir,
                      !.freeBytesAvailable = ZeroBytes,
                      !.replyStatus = ST_OK,
                      !.replyMessage = MsgNewDir]
    /\ wPc' = "walk"
    /\ UNCHANGED << fs, pickVars, uiPc, arg, dataDirectory, pathToCheck, signalled,
                    uiWidgets, replyQ, workerQ, executorAlive, quitNow,
                    history >>

\* The walk with the existence test left out: it climbs to the top.
check_walk_ignores_exists ==
    /\ wPc = "walk"
    /\ IF ~has_parent_path(w.parentDir)
         THEN wPc' = "probe" /\ UNCHANGED << w, uiPc >>
         ELSE /\ w' = [w EXCEPT !.parentDir = parent_path(w.parentDir)]
              /\ wPc' = "walk"
              /\ UNCHANGED uiPc
    /\ UNCHANGED << fs, pickVars, arg, dataDirectory, pathToCheck, signalled, mutex,
                    uiWidgets, replyQ, workerQ, executorAlive, quitNow,
                    history >>

\* One evaluation of the loop condition
\*   while(parentDir.has_parent_path() && !fs::exists(parentDir))
\* and, when it holds, of the body parentDir = parentDir.parent_path().
\* The loop is outside the try block: an exception of fs::exists leaves
\* check() and the thread's event loop uncaught, which ends the process and
\* with it both threads.
check_walk ==
    /\ wPc = "walk"
    /\ IF ~has_parent_path(w.parentDir)
         THEN wPc' = "probe" /\ UNCHANGED << w, uiPc >>
         ELSE CASE fs_exists(fs, w.parentDir) = "throw" ->
                     wPc' = "terminated" /\ uiPc' = "terminated" /\ UNCHANGED w
                [] fs_exists(fs, w.parentDir) = "true" ->
                     wPc' = "probe" /\ UNCHANGED << w, uiPc >>
                [] OTHER ->
                     /\ w' = [w EXCEPT !.parentDir = parent_path(w.parentDir)]
                     /\ wPc' = "walk"
                     /\ UNCHANGED uiPc
    /\ UNCHANGED << fs, pickVars, arg, dataDirectory, pathToCheck, signalled, mutex,
                    uiWidgets, replyQ, workerQ, executorAlive, quitNow,
                    history >>

CannotCreate(avail) ==
    [replyStatus |-> ST_ERROR, replyMessage |-> MsgCannotCreate,
     freeBytesAvailable |-> avail]

\* The try block with the two branches of is_directory exchanged.
TryBlock_branches_swapped(f, l) ==
    LET sp == fs_space(f, l.parentDir) IN
    IF ~sp.ok THEN CannotCreate(l.freeBytesAvailable)
    ELSE CASE fs_exists(f, l.dataDir) = "throw" -> CannotCreate(sp.available)
           [] fs_exists(f, l.dataDir) = "false" ->
                [replyStatus |-> l.replyStatus, replyMessage |-> l.replyMessage,
                 freeBytesAvailable |-> sp.available]
           [] OTHER ->
                CASE fs_is_directory(f, l.dataDir) = "throw" -> CannotCreate(sp.available)
                  [] fs_is_directory(f, l.dataDir) = "false" ->
                       [replyStatus |-> ST_OK, replyMessage |-> MsgDirExists,
                        freeBytesAvailable |-> sp.available]
                  [] OTHER ->
                       [replyStatus |-> ST_ERROR, replyMessage |-> MsgNotDir,
                        freeBytesAvailable |-> sp.available]

\* The try block that takes a missing path for a collision.
TryBlock_missing_is_error(f, l) ==
    LET sp == fs_space(f, l.parentDir) IN
    IF ~sp.ok THEN CannotCreate(l.freeBytesAvailable)
    ELSE CASE fs_exists(f, l.dataDir) = "throw" -> CannotCreate(sp.available)
           [] fs_exists(f, l.dataDir) = "false" ->
                [replyStatus |-> ST_ERROR, replyMessage |-> MsgNotDir,
                 freeBytesAvailable |-> sp.available]
           [] OTHER ->
                CASE fs_is_directory(f, l.dataDir) = "throw" -> CannotCreate(sp.available)
                  [] fs_is_directory(f, l.dataDir) = "true" ->
                       [replyStatus |-> ST_OK, replyMessage |-> MsgDirExists,
                        freeBytesAvailable |-> sp.available]
                  [] OTHER ->
                       [replyStatus |-> ST_ERROR, replyMessage |-> MsgNotDir,
                        freeBytesAvailable |-> sp.available]

\* The try block that clears the byte count whenever it reports an error.
TryBlock_error_zeroes_bytes(f, l) ==
    LET sp == fs_space(f, l.parentDir) IN
    IF ~sp.ok THEN CannotCreate(ZeroBytes)
    ELSE CASE fs_exists(f, l.dataDir) = "throw" -> CannotCreate(ZeroBytes)
           [] fs_exists(f, l.dataDir) = "false" ->
                [replyStatus |-> l.replyStatus, replyMessage |-> l.replyMessage,
                 freeBytesAvailable |-> sp.available]
           [] OTHER ->
                CASE fs_is_directory(f, l.dataDir) = "throw" -> CannotCreate(ZeroBytes)
                  [] fs_is_directory(f, l.dataDir) = "true" ->
                       [replyStatus |-> ST_OK, replyMessage |-> MsgDirExists,
                        freeBytesAvailable |-> sp.available]
                  [] OTHER ->
                       [replyStatus |-> ST_ERROR, replyMessage |-> MsgNotDir,
                        freeBytesAvailable |-> ZeroBytes]

\* check(), the try block and its handler: the values of replyStatus,
\* replyMessage and freeBytesAvailable after it, from the locals l before it.
\*   freeBytesAvailable = fs::space(parentDir).available;
\*   if(fs::exists(dataDir)) { if(fs::is_directory(dataDir)) ... else ... }
\*   catch(fs::filesystem_error &e) { ST_ERROR, "Cannot create ..." }
\* An exception after the first assignment leaves freeBytesAvailable set.
TryBlock(f, l) ==
    LET sp == fs_space(f, l.parentDir) IN
    IF ~sp.ok THEN CannotCreate(l.freeBytesAvailable)
    ELSE CASE fs_exists(f, l.dataDir) = "throw" -> CannotCreate(sp.available)
           [] fs_exists(f, l.dataDir) = "false" ->
                [replyStatus |-> l.replyStatus, replyMessage |-> l.replyMessage,
                 freeBytesAvailable |-> sp.available]
           [] OTHER ->
                CASE fs_is_directory(f, l.dataDir) = "throw" -> CannotCreate(sp.available)
                  [] fs_is_directory(f, l.dataDir) = "true" ->
                       [replyStatus |-> ST_OK, replyMessage |-> MsgDirExists,
                        freeBytesAvailable |-> sp.available]
                  [] OTHER ->
                       [replyStatus |-> ST_ERROR, replyMessage |-> MsgNotDir,
                        freeBytesAvailable |-> sp.available]

\* check(): the try block as one step of the worker
check_probe ==
    /\ wPc = "probe"
    /\ LET r == TryBlock(fs, w) IN
         w' = [w EXCEPT !.replyStatus = r.replyStatus,
                        !.replyMessage = r.replyMessage,
                        !.freeBytesAvailable = r.freeBytesAvailable]
    /\ wPc' = "emit"
    /\ UNCHANGED << fs, pickVars, uiPc, arg, dataDirectory, pathToCheck, signalled, mutex,
                    uiWidgets, replyQ, workerQ, executorAlive, quitNow,
                    history >>

\* The reply check() emits from its locals; path and ver record the slot
\* value it was computed for and the number of writes that preceded the read.
ReplyOf(l) ==
    [status |-> l.replyStatus, message |-> l.replyMessage,
     available |-> l.freeBytesAvailable, path |-> l.dataDir, ver |-> l.ver]

\* check(): emit reply(replyStatus, replyMessage, freeBytesAvailable), queued
\* to the UI thread; check() returns to the event loop.
check_emit ==
    /\ wPc = "emit"
    /\ replyQ' = Append(replyQ, ReplyOf(w))
    /\ lastEmitted' = ReplyOf(w)
    /\ w' = NoLocals
    /\ wPc' = "idle"
    /\ UNCHANGED << fs, pickVars, uiPc, arg, dataDirectory, pathToCheck, signalled, mutex,
                    uiWidgets, workerQ, executorAlive, quitNow,
                    writes, written, nChecks, lastApplied >>

\* The worker's event loop runs the deleteLater() posted by stopThread():
\* the executor is deleted in its own thread.
executor_deleteLater ==
    /\ wPc = "idle"
    /\ workerQ # << >>
    /\ Head(workerQ) = "deleteLater"
    /\ workerQ' = Tail(workerQ)
    /\ executorAlive' = FALSE
    /\ UNCHANGED << fs, pickVars, uiPc, arg, dataDirectory, pathToCheck, signalled, mutex,
                    uiWidgets, replyQ, wPc, w, quitNow, history >>

\* QThread::quit() makes the event loop return once control is back in it;
\* events still queued at that moment are not delivered.
thread_finished ==
    /\ wPc = "idle"
    /\ quitNow
    /\ wPc' = "finished"
    /\ UNCHANGED << fs, pickVars, uiPc, arg, dataDirectory, pathToCheck, signalled, mutex,
                    uiWidgets, replyQ, workerQ, w, executorAlive, quitNow,
                    history >>

(* ------------------------------------------------------------------ *)
(* Specifications                                                       *)
(* ------------------------------------------------------------------ *)
Next ==
    \/ \E p \in Paths : on_dataDirectory_textChanged(p)
    \/ checkPath_lock
    \/ checkPath_write
    \/ checkPath_unlock
    \/ setStatus
    \/ Intro_dtor_begin
    \/ Intro_dtor_wait
    \/ check_begin
    \/ getPathToCheck_lock
    \/ getPathToCheck_read
    \/ getPathToCheck_unlock
    \/ check_walk
    \/ check_probe
    \/ check_emit
    \/ executor_deleteLater
    \/ thread_finished

Spec == Init /\ [][Next]_vars

\* Scheduling: the worker thread keeps running whatever it can run, and the
\* UI thread finishes the slot it is in and its event loop delivers pending
\* replies.  Edits and teardown are up to the user.
WorkerStep ==
    \/ check_begin
    \/ getPathToCheck_lock
    \/ getPathToCheck_read
    \/ getPathToCheck_unlock
    \/ check_walk
    \/ check_probe
    \/ check_emit
    \/ executor_deleteLater
    \/ thread_finished

UiProgress ==
    \/ checkPath_lock
    \/ checkPath_write
    \/ checkPath_unlock
    \/ setStatus
    \/ Intro_dtor_wait

LiveSpec == Spec /\ WF_vars(WorkerStep) /\ WF_vars(UiProgress)

(* ------------------------------------------------------------------ *)
(* Intro::pickDataDirectory                                             *)
(* ------------------------------------------------------------------ *)
\* Everything of the dialog and its worker; pickDataDirectory changes none
\* of it here: the dialog it runs in intro.exec() is the protocol of Spec,
\* of which pickDataDirectory sees the outcome only (rejected, or accepted
\* with the text of the line edit).
introVars == << uiPc, arg, dataDirectory, pathToCheck, signalled, mutex,
                uiWidgets, replyQ, workerQ, wPc, w, executorAlive, quitNow,
                history >>

\* getDefaultDataDirectory(): GetDefaultDataDir(), a fixed path per system
DefaultDataDir == APath

\* GetArg("-datadir", ""): the value given, the default "" otherwise
GetArg_datadir(args) == IF args.datadir.set THEN args.datadir.value ELSE EmptyPath

\* SoftSetArg("-datadir", v): sets the option only if it is not set already
SoftSetArg_datadir(args, v) ==
    IF args.datadir.set THEN args
    ELSE [args EXCEPT !.datadir = [set |-> TRUE, value |-> v]]

\* settings.value("strDataDir", def)
SettingsValue(st, def) == IF st.has THEN st.value ELSE def

\* fs::create_directory(p), the throwing overload: the outcomes it can have
\* on f.  An existing directory is no error ("existed"); a missing path
\* inside an existing directory (a relative name: inside the current
\* directory) is created unless permissions forbid it; everything else
\* throws fs::filesystem_error.
create_directory(f, p) ==
    CASE f.kind[p] = "dir" -> {"existed"}
      [] f.kind[p] \in {"file", "err"} -> {"throw"}
      [] Len(p) = 0 -> {"throw"}
      [] Len(p) = 1 -> {"created", "throw"}
      [] f.kind[parent_path(p)] = "dir" -> {"created", "throw"}
      [] OTHER -> {"throw"}

\* !fs::exists(dataDir.toStdString()) || GetBoolArg("-choosedatadir", false):
\* fs::exists is evaluated first and is not inside any try block.
ChooserNeeded(f, dir, args) ==
    CASE fs_exists(f, dir) = "throw" -> "throw"
      [] fs_exists(f, dir) = "false" -> "true"
      [] OTHER -> IF args.choosedatadir THEN "true" ELSE "false"

\* pickDataDirectory that goes on when -datadir is given.
pick_start_ignores_datadir ==
    /\ pickPc = "start"
    /\ LET dir == SettingsValue(strDataDir, DefaultDataDir) IN
         /\ pickDataDir' = dir
         /\ CASE ChooserNeeded(fs, dir, mapArgs) = "throw" ->
                   pickPc' = "threw" /\ UNCHANGED pickHist
              [] ChooserNeeded(fs, dir, mapArgs) = "true" ->
                   pickPc' = "exec" /\ pickHist' = [pickHist EXCEPT !.shown = TRUE]
              [] OTHER ->
                   pickPc' = "softset" /\ UNCHANGED pickHist
    /\ UNCHANGED << fs, mapArgs, strDataDir, introVars >>

\* pickDataDirectory, lines 139-154: return at once when -datadir is given;
\* otherwise resolve dataDir (default, overridden by the setting) and either
\* construct the dialog with it or go on to SoftSetArg.
pick_start ==
    /\ pickPc = "start"
    /\ IF GetArg_datadir(mapArgs) # EmptyPath
         THEN /\ pickPc' = "returned"
              /\ UNCHANGED << pickDataDir, pickHist >>
         ELSE LET dir == SettingsValue(strDataDir, DefaultDataDir) IN
              /\ pickDataDir' = dir
              /\ CASE ChooserNeeded(fs, dir, mapArgs) = "throw" ->
                        pickPc' = "threw" /\ UNCHANGED pickHist
                   [] ChooserNeeded(fs, dir, mapArgs) = "true" ->
                        pickPc' = "exec" /\ pickHist' = [pickHist EXCEPT !.shown = TRUE]
                   [] OTHER ->
                        pickPc' = "softset" /\ UNCHANGED pickHist
    /\ UNCHANGED << fs, mapArgs, strDataDir, introVars >>

\* if(!intro.exec()) exit(0);   the user cancels the dialog
pick_exec_cancel ==
    /\ pickPc = "exec"
    /\ pickPc' = "exited"
    /\ pickHist' = [pickHist EXCEPT !.exitCode = 0]
    /\ UNCHANGED << fs, mapArgs, strDataDir, pickDataDir, introVars >>

\* intro.exec() accepted; dataDir = intro.getDataDirectory(): the text p
pick_exec_accept(p) ==
    /\ pickPc = "exec"
    /\ pickDataDir' = p
    /\ pickPc' = "create"
    /\ UNCHANGED << fs, mapArgs, strDataDir, pickHist, introVars >>

\* A failed creation that leaves the loop all the same.
pick_create_fails_and_breaks ==
    /\ pickPc = "create"
    /\ "throw" \in create_directory(fs, pickDataDir)
    /\ pickHist' = [pickHist EXCEPT !.lastCreate = "failed"]
    /\ pickPc' = "setValue"
    /\ UNCHANGED << fs, mapArgs, strDataDir, pickDataDir, introVars >>

\* try { fs::create_directory(dataDir); break; }  without an exception
pick_create_ok ==
    /\ pickPc = "create"
    /\ \E o \in create_directory(fs, pickDataDir) \ {"throw"} :
         fs' = IF o = "created"
                 THEN [fs EXCEPT !.kind[pickDataDir] = "dir"]
                 ELSE fs
    /\ pickHist' = [pickHist EXCEPT !.lastCreate = "ok"]
    /\ pickPc' = "setValue"
    /\ UNCHANGED << mapArgs, strDataDir, pickDataDir, introVars >>

\* catch(fs::filesystem_error &e) { QMessageBox::critical(...); }
pick_create_fails ==
    /\ pickPc = "create"
    /\ "throw" \in create_directory(fs, pickDataDir)
    /\ pickHist' = [pickHist EXCEPT !.lastCreate = "failed"]
    /\ pickPc' = "alert"
    /\ UNCHANGED << fs, mapArgs, strDataDir, pickDataDir, introVars >>

\* The alert is dismissed: fall through, back to the choosing screen
pick_alert_closed ==
    /\ pickPc = "alert"
    /\ pickPc' = "exec"
    /\ UNCHANGED << fs, mapArgs, strDataDir, pickDataDir, pickHist, introVars >>

\* settings.setValue("strDataDir", dataDir); then the dialog goes out of scope
pick_setValue ==
    /\ pickPc = "setValue"
    /\ strDataDir' = [has |-> TRUE, value |-> pickDataDir]
    /\ pickPc' = "softset"
    /\ UNCHANGED << fs, mapArgs, pickDataDir, pickHist, introVars >>

\* SoftSetArg("-datadir", dataDir.toStdString()); return
pick_softset ==
    /\ pickPc = "softset"
    /\ mapArgs' = SoftSetArg_datadir(mapArgs, pickDataDir)
    /\ pickPc' = "returned"
    /\ UNCHANGED << fs, strDataDir, pickDataDir, pickHist, introVars >>

\* The command lines and stored settings pickDataDirectory is called with
ArgChoices ==
    { [datadir |-> d, choosedatadir |-> c] :
        d \in {NoArg} \cup { [set |-> TRUE, value |-> v] : v \in {EmptyPath, RelPath, ABPath} },
        c \in BOOLEAN }

SettingChoices == {NoSetting} \cup { [has |-> TRUE, value |-> v] : v \in Paths }

PickInit ==
    /\ fs \in FileSystems
    /\ IntroInit
    /\ pickPc = "start"
    /\ mapArgs \in ArgChoices
    /\ strDataDir \in SettingChoices
    /\ pickDataDir = EmptyPath
    /\ pickHist = [NoPickHist EXCEPT !.mapArgs0 = mapArgs,
                                     !.strDataDir0 = strDataDir,
                                     !.kind0 = fs.kind]

PickNext ==
    \/ pick_start
    \/ pick_exec_cancel
    \/ \E p \in Paths : pick_exec_accept(p)
    \/ pick_create_ok
    \/ pick_create_fails
    \/ pick_alert_closed
    \/ pick_setValue
    \/ pick_softset

PickSpec == PickInit /\ [][PickNext]_vars

(* ------------------------------------------------------------------ *)
(* Vocabulary of the properties                                         *)
(* ------------------------------------------------------------------ *)
\* requestCheck() events queued to the worker
QueuedChecks == Len(SelectSeq(workerQ, LAMBDA e : e = "check"))

\* The worker is inside check()
InCheck == wPc \in {"getPathToCheck_lock", "getPathToCheck_read",
                    "getPathToCheck_unlock", "walk", "probe", "emit"}

\* The worker is inside check() and has not read the slot yet
BeforeSlotRead == wPc \in {"getPathToCheck_lock", "getPathToCheck_read"}

\* Requests emitted by checkPath whose check() has not emitted its reply
InFlight == QueuedChecks + (IF InCheck THEN 1 ELSE 0)

TeardownStarted == uiPc \in {"dtor_wait", "destroyed"}

\* Some calls of checkPath have completed, none is running, and every
\* check() they led to has emitted its reply.
Settled ==
    /\ uiPc = "idle"
    /\ wPc = "idle"
    /\ QueuedChecks = 0
    /\ writes >= 1

NothingApplied == lastApplied = NoReply

\* The versions of the replies waiting in replyQ increase strictly
RepliesInWriteOrder ==
    \A i, j \in 1..Len(replyQ) : i < j => replyQ[i].ver < replyQ[j].ver

(* ------------------------------------------------------------------ *)
(* C1                                                                   *)
(* ------------------------------------------------------------------ *)
\* C1 as claimed: after N >= 1 calls of checkPath made before any reply was
\* delivered, once the worker has caught up exactly one check() has run and
\* its reply is the one for PN.
C1_ExactlyOneCheck ==
    (Settled /\ NothingApplied) =>
        /\ nChecks = 1
        /\ Len(replyQ) = 1
        /\ replyQ[1].ver = writes

\* C1 as amended: after N >= 1 calls of checkPath made before any reply was
\* delivered, once the worker has caught up between 1 and N executions of
\* check() have run, one reply each, every reply is computed for the slot
\* value of a later write than the reply before it, and the last reply is
\* computed for PN.
C1_LastCheckIsForLastPath ==
    (Settled /\ NothingApplied) =>
        /\ nChecks >= 1
        /\ nChecks <= writes
        /\ Len(replyQ) = nChecks
        /\ RepliesInWriteOrder
        /\ replyQ[Len(replyQ)].ver = writes
        /\ replyQ[Len(replyQ)].path = pathToCheck
        /\ lastEmitted = replyQ[Len(replyQ)]

\* Two calls, two executions: the first replied for P1, the second for P2.
C1_Witness ==
    /\ Settled
    /\ NothingApplied
    /\ writes = 2
    /\ nChecks = 2
    /\ replyQ[1].ver = 1
    /\ replyQ[2].ver = 2

(* ------------------------------------------------------------------ *)
(* C2                                                                   *)
(* ------------------------------------------------------------------ *)
\* C2 as claimed: at most one request is in flight, a request being in
\* flight from the emission of requestCheck() until its check() has emitted
\* the reply.
C2_AtMostOneInFlight == InFlight <= 1

\* C2 as amended: at most one request is in flight from the emission of
\* requestCheck() until its check() has read the slot; counted until the
\* reply is emitted at most two are, the one being executed and one queued
\* behind it.
C2_AtMostOneUnread ==
    /\ QueuedChecks + (IF BeforeSlotRead THEN 1 ELSE 0) <= 1
    /\ InFlight <= 2

\* A check() is probing while the next request is already queued.
C2_Witness ==
    /\ wPc = "probe"
    /\ QueuedChecks = 1
    /\ signalled

(* ------------------------------------------------------------------ *)
(* C3                                                                   *)
(* ------------------------------------------------------------------ *)
\* C3: whenever the OK button is enabled after a reply has been applied, the
\* last reply applied was computed for the path now in the slot.
C3_OkOnlyForCurrentPath ==
    (okEnabled /\ ~NothingApplied) => lastApplied.path = pathToCheck

(* ------------------------------------------------------------------ *)
(* C4                                                                   *)
(* ------------------------------------------------------------------ *)
\* C4: if teardown never starts, then from some point on the last reply
\* applied by setStatus is the one computed for the last write of the slot
\* (it is applied, and nothing older is applied after it).
C4_LatestDelivered ==
    ([] ~TeardownStarted) => <>[] (writes >= 1 => lastApplied.ver = writes)

(* ------------------------------------------------------------------ *)
(* C5                                                                   *)
(* ------------------------------------------------------------------ *)
\* C5: the controller is destroyed only once the worker thread has
\* finished: not inside check(), not holding the mutex.
C5_DestroyedAfterWorker ==
    uiPc = "destroyed" => (wPc = "finished" /\ mutex # "worker")

\* Teardown completed after the worker had run a check.
C5_Witness == uiPc = "destroyed" /\ nChecks >= 1

(* ------------------------------------------------------------------ *)
(* C6                                                                   *)
(* ------------------------------------------------------------------ *)
\* C6: each application of a reply by setStatus leaves the OK button enabled
\* exactly when the reply's status is not ERROR; only setStatus enables the
\* button; hence the button is never enabled while the last reply applied
\* has status ERROR.
C6_OkIffNotError ==
    /\ [][ (lastApplied' # lastApplied) =>
             (okEnabled' <=> lastApplied'.status # ST_ERROR) ]_vars
    /\ [][ (~okEnabled /\ okEnabled') => (lastApplied' # lastApplied) ]_vars
    /\ [] (okEnabled => lastApplied.status # ST_ERROR)

\* An ERROR reply has been applied and the button is disabled, with no edit
\* pending that would have disabled it anyway.
C6_Witness ==
    /\ lastApplied.status = ST_ERROR
    /\ lastApplied.ver = writes
    /\ uiPc = "idle"
    /\ ~okEnabled

(* ------------------------------------------------------------------ *)
(* C7                                                                   *)
(* ------------------------------------------------------------------ *)
\* C7: each application of a reply with status OK gives the free-space
\* label the warning style exactly when the reply's byte count is below
\* 10,000,000,000 (10 * GB_BYTES), and enables the OK button whatever the
\* count.
C7_WarnBelowThresholdOnly ==
    [][ (lastApplied' # lastApplied /\ lastApplied'.status = ST_OK) =>
          /\ okEnabled'
          /\ (freeSpaceStyle' = WarnStyle <=> lastApplied'.available.gb < 10)
          /\ (freeSpaceStyle' = NoStyle <=> lastApplied'.available.gb >= 10)
          /\ lastApplied'.available.rem < GB_BYTES ]_vars

\* An OK reply reporting 0 bytes has been applied: warning, button enabled.
C7_Witness ==
    /\ lastApplied.status = ST_OK
    /\ lastApplied.available = ZeroBytes
    /\ freeSpaceStyle = WarnStyle
    /\ okEnabled

(* ------------------------------------------------------------------ *)
(* C8                                                                   *)
(* ------------------------------------------------------------------ *)
\* C8: a check() of a path that exists and is not a directory is never cut
\* short by an exception, its reply has status ERROR, and applying that
\* reply disables the OK button.
C8_FileIsError ==
    /\ [] ( (wPc = "terminated") => fs.kind[w.dataDir] # "file" )
    /\ [] ( (lastEmitted # NoReply /\ fs.kind[lastEmitted.path] = "file")
               => lastEmitted.status = ST_ERROR )
    /\ [][ (lastApplied' # lastApplied /\ fs.kind[lastApplied'.path] = "file")
               => ~okEnabled' ]_vars

\* The reply for a regular file has been applied: "Path already exists, and
\* is not a directory.", button disabled.
C8_Witness ==
    /\ fs.kind[lastApplied.path] = "file"
    /\ lastApplied.status = ST_ERROR
    /\ lastApplied.message = MsgNotDir
    /\ errorMessage = <<"Error: ", MsgNotDir>>
    /\ ~okEnabled

(* ------------------------------------------------------------------ *)
(* C9                                                                   *)
(* ------------------------------------------------------------------ *)
\* Where the upward walk from p ends: the first path on the chain from p to
\* the root that exists or has no parent.
RECURSIVE WalkEnd(_)
WalkEnd(p) ==
    IF Len(p) >= 2 /\ fs.kind[p] = "absent"
      THEN WalkEnd(SubSeq(p, 1, Len(p) - 1))
      ELSE p

\* The free-space query at q succeeds
Probeable(q) == fs.kind[q] \in {"file", "dir"} /\ q \notin fs.nospace

\* C9 as claimed: every reply for a path that does not exist has status OK
\* and the message that a new directory will be created.
C9_MissingIsOk ==
    (lastEmitted # NoReply /\ fs.kind[lastEmitted.path] = "absent") =>
        (lastEmitted.status = ST_OK /\ lastEmitted.message = MsgNewDir)

\* C9 as amended: a reply for a path that does not exist has status OK and
\* the new-directory message, and enables the button when applied, exactly
\* when the free-space query at the end of the upward walk succeeds;
\* otherwise it has status ERROR with "Cannot create data directory here."
\* and disables the button.
C9_MissingIsOkIfProbeable ==
    /\ [] ( (lastEmitted # NoReply /\ fs.kind[lastEmitted.path] = "absent") =>
              IF Probeable(WalkEnd(lastEmitted.path))
                THEN lastEmitted.status = ST_OK /\ lastEmitted.message = MsgNewDir
                ELSE lastEmitted.status = ST_ERROR
                       /\ lastEmitted.message = MsgCannotCreate )
    /\ [][ (lastApplied' # lastApplied /\ fs.kind[lastApplied'.path] = "absent")
             => (okEnabled' <=> Probeable(WalkEnd(lastApplied'.path))) ]_vars

\* The reply for a missing path below an existing directory has been
\* applied: new-directory message, button enabled.
C9_Witness ==
    /\ fs.kind[lastApplied.path] = "absent"
    /\ Len(lastApplied.path) >= 2
    /\ lastApplied.status = ST_OK
    /\ lastApplied.message = MsgNewDir
    /\ errorMessage = <<"", MsgNewDir>>
    /\ okEnabled

(* ------------------------------------------------------------------ *)
(* C10                                                                  *)
(* ------------------------------------------------------------------ *)
\* C10 as claimed: every reply for a path that is a directory has status OK
\* and the directory-exists hint.
C10_DirIsOk ==
    (lastEmitted # NoReply /\ fs.kind[lastEmitted.path] = "dir") =>
        (lastEmitted.status = ST_OK /\ lastEmitted.message = MsgDirExists)

\* C10 as amended: a check() of a path that is a directory always emits a
\* reply; the reply has status OK and the directory-exists hint, and enables
\* the button when applied, exactly when the free-space query on that
\* directory succeeds; otherwise it has status ERROR with "Cannot create
\* data directory here." and disables the button.
C10_DirIsOkIfProbeable ==
    /\ [] ( (wPc = "terminated") => fs.kind[w.dataDir] # "dir" )
    /\ [] ( (lastEmitted # NoReply /\ fs.kind[lastEmitted.path] = "dir") =>
              IF lastEmitted.path \notin fs.nospace
                THEN lastEmitted.status = ST_OK /\ lastEmitted.message = MsgDirExists
                ELSE lastEmitted.status = ST_ERROR
                       /\ lastEmitted.message = MsgCannotCreate )
    /\ [][ (lastApplied' # lastApplied /\ fs.kind[lastApplied'.path] = "dir")
             => (okEnabled' <=> lastApplied'.path \notin fs.nospace) ]_vars

\* The reply for an existing directory has been applied: hint shown, button
\* enabled.
C10_Witness ==
    /\ fs.kind[lastApplied.path] = "dir"
    /\ lastApplied.status = ST_OK
    /\ lastApplied.message = MsgDirExists
    /\ errorMessage = <<"", MsgDirExists>>
    /\ okEnabled

(* ------------------------------------------------------------------ *)
(* C11                                                                  *)
(* ------------------------------------------------------------------ *)
\* The prefixes of p that are longer than q
LongerPrefixes(p, q) == { SubSeq(p, 1, n) : n \in (Len(q) + 1)..Len(p) }

\* C11: while check() walks upward, parentDir is a prefix of the candidate
\* path below which nothing on the chain exists; each turn of the loop
\* shortens parentDir; the walk ends at the first path of the chain that
\* exists (or has no parent); and when the free space of that path can be
\* queried, the reply carries exactly that byte count.
C11_ReportsNearestExistingAncestor ==
    /\ [] ( (wPc = "walk") =>
              /\ w.parentDir = SubSeq(w.dataDir, 1, Len(w.parentDir))
              /\ \A q \in LongerPrefixes(w.dataDir, w.parentDir) :
                    fs.kind[q] = "absent" )
    /\ [] ( (wPc \in {"probe", "emit"}) => w.parentDir = WalkEnd(w.dataDir) )
    /\ [][ (check_walk /\ wPc' = "walk") =>
              Len(w'.parentDir) < Len(w.parentDir) ]_vars
    /\ [] ( (lastEmitted # NoReply /\ Probeable(WalkEnd(lastEmitted.path))) =>
              lastEmitted.available = FreeAt(WalkEnd(lastEmitted.path)) )

\* A reply for the missing "/a/b" below the directory "/a" carries the free
\* space of "/a", which differs from that of "/".
C11_Witness ==
    /\ lastEmitted.path = ABPath
    /\ fs.kind[ABPath] = "absent"
    /\ fs.kind[APath] = "dir"
    /\ lastEmitted.available = FreeAt(APath)
    /\ lastEmitted.available # FreeAt(RootPath)

(* ------------------------------------------------------------------ *)
(* C12                                                                  *)
(* ------------------------------------------------------------------ *)
\* C12: no filesystem failure leaves check() as an exception: the worker is
\* never ended by one, so every execution of check() reaches its reply.
C12_NoExceptionEscapes == wPc # "terminated"

(* ------------------------------------------------------------------ *)
(* C13                                                                  *)
(* ------------------------------------------------------------------ *)
\* C13 as claimed: every reply with status ERROR carries a byte count of 0.
C13_ErrorHasZeroBytes ==
    lastEmitted.status = ST_ERROR => lastEmitted.available = ZeroBytes

\* C13 as amended: a reply with status ERROR is either the one for a failed
\* free-space query ("Cannot create data directory here."), which carries
\* 0 bytes, or the one for an existing non-directory ("Path already exists,
\* and is not a directory."), which carries the free space queried at that
\* path.
C13_ErrorBytes ==
    lastEmitted.status = ST_ERROR =>
        \/ /\ lastEmitted.message = MsgCannotCreate
           /\ ~Probeable(WalkEnd(lastEmitted.path))
           /\ lastEmitted.available = ZeroBytes
        \/ /\ lastEmitted.message = MsgNotDir
           /\ fs.kind[lastEmitted.path] = "file"
           /\ Probeable(lastEmitted.path)
           /\ lastEmitted.available = FreeAt(lastEmitted.path)

\* An ERROR reply for an existing file that carries a non-zero byte count.
C13_Witness ==
    /\ lastEmitted.status = ST_ERROR
    /\ lastEmitted.message = MsgNotDir
    /\ lastEmitted.available # ZeroBytes

(* ------------------------------------------------------------------ *)
(* C14                                                                  *)
(* ------------------------------------------------------------------ *)
InDialogLoop == pickPc \in {"exec", "create", "alert"}

\* C14: once the chooser has been presented, pickDataDirectory leaves the
\* dialog loop only through exit(0) from the chooser or after a
\* create_directory on the chosen path that did not fail; a failed creation
\* always leads to the alert and the alert back to the chooser; and
\* "strDataDir" is written only after the successful creation, with the
\* path that was created.
C14_LoopExits ==
    /\ [][ (InDialogLoop /\ ~InDialogLoop') =>
             \/ pickPc = "exec" /\ pickPc' = "exited" /\ pickHist'.exitCode = 0
             \/ /\ pickPc = "create" /\ pickPc' = "setValue"
                /\ pickHist'.lastCreate = "ok"
                /\ fs'.kind[pickDataDir'] = "dir" ]_vars
    /\ [][ (pickPc = "create" /\ pickPc' # "create" /\ pickPc' # "setValue") =>
             /\ pickPc' = "alert"
             /\ pickHist'.lastCreate = "failed"
             /\ fs' = fs ]_vars
    /\ [][ (pickPc = "alert" /\ pickPc' # "alert") => pickPc' = "exec" ]_vars
    /\ [][ (strDataDir' # strDataDir) =>
             /\ pickPc = "setValue"
             /\ pickHist.lastCreate = "ok"
             /\ strDataDir' = [has |-> TRUE, value |-> pickDataDir]
             /\ fs.kind[pickDataDir] = "dir" ]_vars
    /\ [] ( (pickPc \in {"exec", "create", "alert", "exited"}) =>
              strDataDir = pickHist.strDataDir0 )
    /\ [] ( (pickPc \in {"softset", "returned"} /\ pickHist.shown) =>
              /\ strDataDir = [has |-> TRUE, value |-> pickDataDir]
              /\ pickHist.lastCreate = "ok" )

\* pickDataDirectory returned after the chooser: a directory that did not
\* exist before has been created and stored.
C14_Witness ==
    /\ pickPc = "returned"
    /\ pickHist.shown
    /\ pickHist.kind0[pickDataDir] = "absent"
    /\ fs.kind[pickDataDir] = "dir"
    /\ strDataDir = [has |-> TRUE, value |-> pickDataDir]
    /\ strDataDir # pickHist.strDataDir0

(* ------------------------------------------------------------------ *)
(* C15                                                                  *)
(* ------------------------------------------------------------------ *)
\* C15: called with a non-empty -datadir, pickDataDirectory presents no
\* chooser, creates no directory and leaves the settings and the options as
\* they were; and whatever it does, a -datadir that was given keeps its
\* value.
C15_ExplicitDatadirUntouched ==
    /\ (pickHist.mapArgs0.datadir.set /\ pickHist.mapArgs0.datadir.value # EmptyPath) =>
          /\ pickPc \in {"start", "returned"}
          /\ ~pickHist.shown
          /\ pickHist.lastCreate = "none"
          /\ fs.kind = pickHist.kind0
          /\ strDataDir = pickHist.strDataDir0
          /\ mapArgs = pickHist.mapArgs0
    /\ pickHist.mapArgs0.datadir.set => mapArgs.datadir = pickHist.mapArgs0.datadir

\* pickDataDirectory has returned from a call with -datadir=/a/b although
\* -choosedatadir was given and the stored directory does not exist.
C15_Witness ==
    /\ pickPc = "returned"
    /\ mapArgs.datadir = [set |-> TRUE, value |-> ABPath]
    /\ mapArgs.choosedatadir
    /\ pickHist.strDataDir0.has
    /\ fs.kind[pickHist.strDataDir0.value] = "absent"

(* ------------------------------------------------------------------ *)
(* C16                                                                  *)
(* ------------------------------------------------------------------ *)
\* The directory pickDataDirectory resolves: the setting, else the default
Resolved == IF pickHist.strDataDir0.has THEN pickHist.strDataDir0.value ELSE DefaultDataDir

DatadirWasEmpty ==
    ~pickHist.mapArgs0.datadir.set \/ pickHist.mapArgs0.datadir.value = EmptyPath

\* C16: called with an empty -datadir, pickDataDirectory presents the
\* chooser exactly when the resolved directory does not exist or
\* -choosedatadir is given; and when it returns without having presented
\* it, the settings are unchanged and -datadir is the resolved directory.
C16_ChooserIffNeeded ==
    (pickPc \in {"start", "off"}) \/ ~DatadirWasEmpty \/
        /\ pickHist.shown <=>
             (pickHist.kind0[Resolved] = "absent" \/ pickHist.mapArgs0.choosedatadir)
        /\ (pickPc = "returned" /\ ~pickHist.shown) =>
             /\ strDataDir = pickHist.strDataDir0
             /\ mapArgs.datadir = [set |-> TRUE, value |-> Resolved]

(* ------------------------------------------------------------------ *)
(* C17                                                                  *)
(* ------------------------------------------------------------------ *)
\* The value of the k-th write of the slot (the initial value for k = 0)
WrittenAt(k) == IF k = 0 THEN EmptyPath ELSE written[k]

\* check() holds the value it took from the slot
HasReadSlot == wPc \in {"getPathToCheck_unlock", "walk", "probe", "emit"}

\* C17: the slot always holds the value of the last completed write; the
\* slot read of check() takes that value, under the mutex and after at
\* least one write; and what an execution probes and replies for is the
\* value of the write that was the last one when it read the slot, never an
\* earlier one.
C17_ProbesLastWrite ==
    /\ [] ( Len(written) = writes /\ pathToCheck = WrittenAt(Len(written)) )
    /\ [][ (nChecks' # nChecks) =>
             /\ mutex = "worker"
             /\ Len(written) >= 1
             /\ w'.dataDir = written[Len(written)]
             /\ w'.ver = Len(written) ]_vars
    /\ [] ( HasReadSlot => (w.ver >= 1 /\ w.dataDir = WrittenAt(w.ver)) )
    /\ [] ( (lastEmitted # NoReply) =>
              (lastEmitted.ver >= 1 /\ lastEmitted.path = WrittenAt(lastEmitted.ver)) )
    /\ [] RepliesInWriteOrder

\* Two writes, one execution: it replied for the second value, and the first
\* value, a different path, was never probed.
C17_Witness ==
    /\ writes = 2
    /\ nChecks = 1
    /\ wPc = "idle"
    /\ lastEmitted.ver = 2
    /\ lastEmitted.path = written[2]
    /\ written[1] # written[2]

(* ------------------------------------------------------------------ *)
(* C18                                                                  *)
(* ------------------------------------------------------------------ *)
\* C18: once ~Intro has emitted stopThread() and waits for the thread, the
\* worker thread eventually finishes and the destructor completes.
C18_WorkerStops ==
    (uiPc = "dtor_wait") ~> (wPc = "finished" /\ uiPc = "destroyed")

(* ------------------------------------------------------------------ *)
(* C19                                                                  *)
(* ------------------------------------------------------------------ *)
UiInCriticalSection == uiPc \in {"checkPath_write", "checkPath_unlock"}

WorkerInCriticalSection == wPc \in {"getPathToCheck_read", "getPathToCheck_unlock"}

\* C19: while the process runs, the UI thread holds the mutex exactly
\* between the lock and the unlock of checkPath and the worker exactly
\* between the lock and the unlock of getPathToCheck, so never during the
\* walk, the probe or the emission of the reply; the two critical sections
\* never overlap; and whoever holds the mutex can always take its next step,
\* which leads to the release without any further wait.
C19_LockScope ==
    (uiPc # "terminated") =>
        /\ (mutex = "ui") <=> UiInCriticalSection
        /\ (mutex = "worker") <=> WorkerInCriticalSection
        /\ ~(UiInCriticalSection /\ WorkerInCriticalSection)
        /\ (wPc \in {"walk", "probe", "emit"}) => mutex # "worker"
        /\ (uiPc = "checkPath_write") => ENABLED checkPath_write
        /\ (uiPc = "checkPath_unlock") => ENABLED checkPath_unlock
        /\ (wPc = "getPathToCheck_read") => ENABLED getPathToCheck_read
        /\ (wPc = "getPathToCheck_unlock") => ENABLED getPathToCheck_unlock

\* The UI thread waits in checkPath for the mutex the worker holds.
C19_Witness ==
    /\ uiPc = "checkPath_lock"
    /\ mutex = "worker"
    /\ wPc = "getPathToCheck_read"

(* ------------------------------------------------------------------ *)
(* C20                                                                  *)
(* ------------------------------------------------------------------ *)
\* requestCheck() events whose check() has not read the slot yet
UnreadRequests == QueuedChecks + (IF wPc = "getPathToCheck_lock" THEN 1 ELSE 0)

\* C20: before teardown and outside the two critical sections, signalled is
\* true exactly when one requestCheck() is on its way to a slot read and
\* false exactly when none is; never more than one is; and a checkPath that
\* finds signalled set changes only pathToCheck.
C20_SignalledIffQueued ==
    /\ [] ( (~TeardownStarted /\ uiPc # "terminated"
               /\ ~UiInCriticalSection /\ ~WorkerInCriticalSection) =>
              /\ signalled <=> (UnreadRequests = 1)
              /\ ~signalled <=> (UnreadRequests = 0) )
    /\ [] ( QueuedChecks <= 1 )
    /\ [][ (uiPc = "checkPath_write" /\ uiPc' # uiPc /\ uiPc' # "terminated"
              /\ signalled) =>
             /\ pathToCheck' = arg
             /\ signalled' = signalled
             /\ workerQ' = workerQ
             /\ replyQ' = replyQ
             /\ uiWidgets' = uiWidgets ]_vars

\* A checkPath has just stored a new path while a request was already
\* signalled and queued: nothing was queued in addition.
C20_Witness ==
    /\ uiPc = "checkPath_unlock"
    /\ writes = 2
    /\ signalled
    /\ QueuedChecks = 1
    /\ nChecks = 0

====
